---------------------------- MODULE Spec2Model ----------------------------
(***************************************************************************)
(* The diagnosis pipeline of app.py (Streamlit script, "Diagnose" button): *)
(* blank check, classifier call, pre-sort by raw probability, validity     *)
(* gate, species detection, species-aware penalty and renormalisation,     *)
(* top-3 ranking and banding, history append.                              *)
(*                                                                         *)
(* Strings that the code inspects character by character (the input text,  *)
(* the species keywords, the species tags) are sequences of one-character  *)
(* strings; a Sinhala character is written as its code point ("0DB6").     *)
(* Probabilities are exact rationals <<n, d>> in lowest terms with d > 0   *)
(* (the code uses IEEE doubles; rounding is not modelled).                 *)
(***************************************************************************)
EXTENDS Integers, Sequences, FiniteSets, TLC

VARIABLES pc, user_input, classes, probs, all_df, detected_species,
          penalized, total, adjusted, adjusted_sorted, top3, chart_rows,
          alert_triggered, histRows, saved

vars == <<pc, user_input, classes, probs, all_df, detected_species,
          penalized, total, adjusted, adjusted_sorted, top3, chart_rows,
          alert_triggered, histRows, saved>>

(***************************************************************************)
(* Bounds of the model.                                                    *)
(***************************************************************************)
MaxWords == 2
MaxBumps == 4
MaxHistoryRows == 1

(***************************************************************************)
(* Rational arithmetic.                                                    *)
(***************************************************************************)
Abs(x) == IF x < 0 THEN -x ELSE x

RECURSIVE GCD(_, _)
GCD(a, b) == IF b = 0 THEN a ELSE GCD(b, a % b)

Rat(n, d) ==
    LET s == IF d < 0 THEN -1 ELSE 1
        g == GCD(Abs(n), Abs(d))
    IN  <<(s * n) \div g, (s * d) \div g>>

RMul(a, b) == Rat(a[1] * b[1], a[2] * b[2])
RDiv(a, b) == Rat(a[1] * b[2], a[2] * b[1])
RAdd(a, b) == Rat(a[1] * b[2] + b[1] * a[2], a[2] * b[2])
RLt(a, b) == a[1] * b[2] < b[1] * a[2]
RLe(a, b) == a[1] * b[2] <= b[1] * a[2]
RZero == <<0, 1>>
ROne == <<1, 1>>

RECURSIVE RSum(_)
RSum(s) == IF s = <<>> THEN RZero ELSE RAdd(s[1], RSum(Tail(s)))

(***************************************************************************)
(* Configuration tables.                                                   *)
(***************************************************************************)
None == <<>>

Dog == <<"d", "o", "g">>
Cat == <<"c", "a", "t">>
Cow == <<"c", "o", "w">>
DogCat == Dog \o <<"_">> \o Cat
DogCow == Dog \o <<"_">> \o Cow

\* disease -> species tag; a label outside the table has no tag (dict.get -> None)
disease_species(d) ==
    CASE d \in {"Parvovirus", "Distemper"} -> Dog
      [] d \in {"Skin_Allergy", "Kidney_Disease"} -> DogCat
      [] d = "Arthritis" -> DogCow
      [] d \in {"Feline_Panleukopenia", "Rhinotracheitis", "Feline_UTI",
                "Feline_Allergy", "Feline_Arthritis"} -> Cat
      [] d \in {"Mastitis", "Foot_and_Mouth", "Bovine_Diarrhea",
                "Bovine_Tuberculosis", "Ketosis"} -> Cow
      [] OTHER -> None

\* species keywords, in dict insertion order: <<species, keyword list>>
species_keywords ==
    << <<Dog, << <<"d", "o", "g">>,
                  <<"0DB6", "0DBD", "0DCA", "0DBD", "0DCF">>,
                  <<"c", "a", "n", "i", "n", "e">> >> >>,
       <<Cat, << <<"c", "a", "t">>,
                  <<"0DB4", "0DD6", "0DC3", "0DCF">>,
                  <<"f", "e", "l", "i", "n", "e">> >> >>,
       <<Cow, << <<"c", "o", "w">>,
                  <<"0D9C", "0DC0", "0DBA", "0DCF">>,
                  <<"c", "a", "t", "t", "l", "e">>,
                  <<"0D9C", "0DDD", "0DB8", "0DD2", "0DBA">> >> >> >>

Threshold == <<1, 10>>
\* variant: mismatched diseases keep their whole weight
PenaltyFactorNone == <<1, 1>>

PenaltyFactor == <<1, 20>>
Hundred == <<100, 1>>
HighBand == <<50, 1>>
MediumBand == <<20, 1>>
TopN == 3

(***************************************************************************)
(* String helpers: str.lower, str.strip, substring test, str.split("_").   *)
(***************************************************************************)
LowerChar(c) ==
    CASE c = "C" -> "c"
      [] c = "D" -> "d"
      [] c = "O" -> "o"
      [] c = "G" -> "g"
      [] c = "W" -> "w"
      [] OTHER -> c

Lower(s) == [i \in 1..Len(s) |-> LowerChar(s[i])]

Whitespace == {" "}

RECURSIVE LStrip(_)
LStrip(s) == IF s # <<>> /\ s[1] \in Whitespace THEN LStrip(Tail(s)) ELSE s

RECURSIVE RStrip(_)
RStrip(s) ==
    IF s # <<>> /\ s[Len(s)] \in Whitespace
    THEN RStrip(SubSeq(s, 1, Len(s) - 1))
    ELSE s

Strip(s) == RStrip(LStrip(s))

\* k in txt
Contains(txt, k) ==
    \E i \in 1..(Len(txt) - Len(k) + 1) : SubSeq(txt, i, i + Len(k) - 1) = k

RECURSIVE Split(_, _)
Split(s, sep) ==
    IF \E i \in 1..Len(s) : s[i] = sep
    THEN LET i == CHOOSE j \in 1..Len(s) :
                      s[j] = sep /\ \A k \in 1..(j - 1) : s[k] # sep
         IN  <<SubSeq(s, 1, i - 1)>> \o Split(SubSeq(s, i + 1, Len(s)), sep)
    ELSE <<s>>

SeqRange(s) == {s[i] : i \in 1..Len(s)}


Min(a, b) == IF a < b THEN a ELSE b

(***************************************************************************)
(* Inputs: texts typed by the user and outputs of the external classifier. *)
(***************************************************************************)
Fever == <<"f", "e", "v", "e", "r">>

Vocabulary ==
    { Fever,
      <<"d", "o", "g">>, <<"D", "o", "g">>, <<"c", "a", "n", "i", "n", "e">>,
      <<"c", "a", "t">>, <<"f", "e", "l", "i", "n", "e">>,
      <<"C", "O", "W">>, <<"c", "a", "t", "t", "l", "e">>,
      <<"0DB6", "0DBD", "0DCA", "0DBD", "0DCF">>,
      <<"0DB4", "0DD6", "0DC3", "0DCF">>,
      <<"0D9C", "0DC0", "0DBA", "0DCF">>,
      <<"0D9C", "0DDD", "0DB8", "0DD2", "0DBA">> }

\* texts of 1..n words of W separated by single spaces
RECURSIVE Phrases(_, _)
Phrases(W, n) ==
    IF n <= 1 THEN W
    ELSE LET shorter == Phrases(W, n - 1)
         IN  shorter \cup {p \o <<" ">> \o w : p \in shorter, w \in W}

BlankTexts == {<<>>, <<" ">>}

\* texts offered to the species detector
DetectorTexts == BlankTexts \cup Phrases(Vocabulary, MaxWords)

\* texts offered to the full pipeline: blank, no species, one per species
PipelineTexts ==
    {<<" ">>, Fever, <<"D", "o", "g">>, <<"c", "a", "t", "t", "l", "e">>,
     <<"0D9C", "0DC0", "0DBA", "0DCF">> \o <<" ">> \o Fever}

\* label lists in LabelEncoder (sorted) order; "Rabies" has no species tag
CoreLabels == <<"Arthritis", "Mastitis", "Parvovirus", "Rabies", "Skin_Allergy">>

AllLabels ==
    <<"Arthritis", "Bovine_Diarrhea", "Bovine_Tuberculosis", "Distemper",
      "Feline_Allergy", "Feline_Arthritis", "Feline_Panleukopenia",
      "Feline_UTI", "Foot_and_Mouth", "Ketosis", "Kidney_Disease",
      "Mastitis", "Parvovirus", "Rabies", "Rhinotracheitis", "Skin_Allergy">>

\* tree votes a class may receive in a concentrated output
VoteLevels == {0, 1, 3, 6, 20}

RECURSIVE SumSeq(_)
SumSeq(s) == IF s = <<>> THEN 0 ELSE s[1] + SumSeq(Tail(s))

\* concentrated outputs: any vote levels over the core labels, not all zero
CoreOutputs ==
    {[classes |-> CoreLabels, votes |-> v] :
        v \in {w \in [1..Len(CoreLabels) -> VoteLevels] : SumSeq(w) > 0}}

\* labels that may get one vote more than the floor: one of each kind of tag
BumpLabels ==
    {"Arthritis", "Feline_UTI", "Mastitis", "Parvovirus", "Rabies", "Skin_Allergy"}

\* flat outputs: every label gets the same floor, at most MaxBumps one more
FlatOutputs ==
    {[classes |-> AllLabels,
      votes |-> [i \in 1..Len(AllLabels) |-> f + (IF AllLabels[i] \in B THEN 1 ELSE 0)]] :
        f \in {1, 2},
        B \in {b \in SUBSET BumpLabels : Cardinality(b) <= MaxBumps}}

PipelineOutputs == CoreOutputs \cup FlatOutputs

\* predict_proba: the share of the votes of each class (sums to 1)
PredictProba(votes) ==
    [i \in 1..Len(votes) |-> Rat(votes[i], SumSeq(votes))]

(***************************************************************************)
(* Sorting.                                                                *)
(***************************************************************************)
\* tie orders a non-stable descending sort of the frame may leave
TieOrders == {"kept", "reversed"}

\* insert row x into s (descending by prob); among equal probs x goes last
\* ("kept") or first ("reversed")
InsertRow(s, x, tie) ==
    LET stop(i) == IF tie = "kept" THEN RLt(s[i].prob, x.prob)
                                   ELSE RLe(s[i].prob, x.prob)
        at == IF \E i \in 1..Len(s) : stop(i)
              THEN CHOOSE i \in 1..Len(s) :
                       stop(i) /\ \A j \in 1..(i - 1) : ~stop(j)
              ELSE Len(s) + 1
    IN  SubSeq(s, 1, at - 1) \o <<x>> \o SubSeq(s, at, Len(s))

RECURSIVE SortFrame(_, _, _)
SortFrame(done, rest, tie) ==
    IF rest = <<>> THEN done
    ELSE SortFrame(InsertRow(done, rest[1], tie), Tail(rest), tie)

\* all_df.sort_values("prob", ascending=False).reset_index(drop=True)
sort_values(frame, tie) == SortFrame(<<>>, frame, tie)

\* insert pair x = <<d, p>> into s, descending by p, after its equals
InsertPair(s, x) ==
    LET at == IF \E i \in 1..Len(s) : RLt(s[i][2], x[2])
              THEN CHOOSE i \in 1..Len(s) :
                       RLt(s[i][2], x[2])
                       /\ \A j \in 1..(i - 1) : ~RLt(s[j][2], x[2])
              ELSE Len(s) + 1
    IN  SubSeq(s, 1, at - 1) \o <<x>> \o SubSeq(s, at, Len(s))

RECURSIVE SortPairs(_, _)
SortPairs(done, rest) ==
    IF rest = <<>> THEN done
    ELSE SortPairs(InsertPair(done, rest[1]), Tail(rest))

\* variant: the adjusted list is left in the order of the pre-sort
sorted_not(pairs) == pairs

\* sorted(adjusted, key=lambda x: x[1], reverse=True): stable
sorted_desc(pairs) == SortPairs(<<>>, pairs)

(***************************************************************************)
(* The pipeline's pure steps.                                              *)
(***************************************************************************)
\* pd.DataFrame({"disease": classes, "prob": probs})
DataFrame(cl, pr) == [i \in 1..Len(cl) |-> [disease |-> cl[i], prob |-> pr[i]]]

\* variant: a best probability of exactly 0.10 is rejected too
GateRejectsInclusive(frame) == RLe(frame[1].prob, Threshold)

\* all_df.loc[0, "prob"] < 0.10
GateRejects(frame) == RLt(frame[1].prob, Threshold)

RECURSIVE AnyKey(_, _)
AnyKey(keys, txt) ==
    keys # <<>> /\ (Contains(txt, keys[1]) \/ AnyKey(Tail(keys), txt))

RECURSIVE DetectLoop(_, _)
DetectLoop(kw, txt) ==
    IF kw = <<>> THEN None
    ELSE IF AnyKey(kw[1][2], txt) THEN kw[1][1]
    ELSE DetectLoop(Tail(kw), txt)

\* variant: the species are scanned in the opposite order
DetectSpeciesReversed(input) ==
    DetectLoop([i \in 1..Len(species_keywords) |->
                   species_keywords[Len(species_keywords) + 1 - i]],
               Lower(input))

\* the species detection loop over species_keywords.items()
DetectSpeciesOf(input) == DetectLoop(species_keywords, Lower(input))

\* variant: a multi-species tag is compared whole, never split
PenalizeWholeTag(d, p, sp) ==
    LET dspecies == disease_species(d)
    IN  IF sp # None /\ dspecies # None
        THEN IF sp # dspecies THEN RMul(p, PenaltyFactor) ELSE p
        ELSE p

\* variant: the species check runs even when no species was detected
PenalizeUndetected(d, p, sp) ==
    LET dspecies == disease_species(d)
    IN  IF dspecies # None
        THEN IF "_" \in SeqRange(dspecies)
             THEN IF sp \notin SeqRange(Split(dspecies, "_"))
                  THEN RMul(p, PenaltyFactor)
                  ELSE p
             ELSE IF sp # dspecies THEN RMul(p, PenaltyFactor) ELSE p
        ELSE p

\* the weight of one row after the species check
Penalize(d, p, sp) ==
    LET dspecies == disease_species(d)
    IN  IF sp # None /\ dspecies # None
        THEN IF "_" \in SeqRange(dspecies)
             THEN IF sp \notin SeqRange(Split(dspecies, "_"))
                  THEN RMul(p, PenaltyFactor)
                  ELSE p
             ELSE IF sp # dspecies THEN RMul(p, PenaltyFactor) ELSE p
        ELSE p

PenalizeAll(frame, sp) ==
    [i \in 1..Len(frame) |->
        <<frame[i].disease, Penalize(frame[i].disease, frame[i].prob, sp)>>]

Weights(pairs) == [i \in 1..Len(pairs) |-> pairs[i][2]]

\* total = sum(...); if total <= 0: total = sum(...) or 1.0
Divisor(pairs) ==
    LET t == RSum(Weights(pairs))
    IN  IF RLe(t, RZero) THEN (IF t = RZero THEN ROne ELSE t) ELSE t

\* variant: the weights are returned without dividing by the total
NormalizeSkipped(pairs, t) == pairs

\* adjusted = [(d, p / total) for d, p in adjusted]
Normalize(pairs, t) == [i \in 1..Len(pairs) |-> <<pairs[i][1], RDiv(pairs[i][2], t)>>]

\* adjusted_sorted[:3]
Top(pairs) == SubSeq(pairs, 1, Min(TopN, Len(pairs)))

Red == "#E74C3C"
Orange == "#F39C12"
Green == "#27AE60"

\* the colour of one card
Color(conf) ==
    IF RLe(HighBand, conf) THEN Red
    ELSE IF RLe(MediumBand, conf) THEN Orange
    ELSE Green

ChartRows(top) ==
    [i \in 1..Len(top) |->
        LET conf == RMul(top[i][2], Hundred)
        IN  [Disease |-> top[i][1], Confidence |-> conf, Color |-> Color(conf)]]

\* variant: the alert needs a confidence strictly above 50
RECURSIVE AlertLoopStrict(_, _)
AlertLoopStrict(top, alert) ==
    IF top = <<>> THEN alert
    ELSE AlertLoopStrict(Tail(top),
                         IF RLt(HighBand, RMul(top[1][2], Hundred)) THEN TRUE ELSE alert)

\* alert_triggered after the loop over top3
RECURSIVE AlertLoop(_, _)
AlertLoop(top, alert) ==
    IF top = <<>> THEN alert
    ELSE AlertLoop(Tail(top),
                   IF RLe(HighBand, RMul(top[1][2], Hundred)) THEN TRUE ELSE alert)

(***************************************************************************)
(* State machine.                                                          *)
(***************************************************************************)
Init ==
    /\ pc = "idle"
    /\ user_input = <<>>
    /\ classes = <<>>
    /\ probs = <<>>
    /\ all_df = <<>>
    /\ detected_species = None
    /\ penalized = <<>>
    /\ total = RZero
    /\ adjusted = <<>>
    /\ adjusted_sorted = <<>>
    /\ top3 = <<>>
    /\ chart_rows = <<>>
    /\ alert_triggered = FALSE
    /\ histRows = 0
    /\ saved = FALSE

\* button pressed with text typed: blank check, classifier, pre-sort, gate
Diagnose(texts, outputs) ==
    /\ pc = "idle"
    /\ histRows < MaxHistoryRows
    /\ \E text \in texts :
        /\ user_input' = text
        /\ IF Strip(text) = <<>>
           THEN /\ pc' = "empty"
                /\ UNCHANGED <<classes, probs, all_df>>
           ELSE \E out \in outputs, tie \in TieOrders :
                LET pr == PredictProba(out.votes)
                    frame == sort_values(DataFrame(out.classes, pr), tie)
                IN  /\ classes' = out.classes
                    /\ probs' = pr
                    /\ all_df' = frame
                    /\ pc' = IF GateRejects(frame) THEN "rejected" ELSE "valid"
    /\ UNCHANGED <<detected_species, penalized, total, adjusted,
                   adjusted_sorted, top3, chart_rows, alert_triggered,
                   histRows, saved>>

DetectSpecies ==
    /\ pc = "valid"
    /\ detected_species' = DetectSpeciesOf(user_input)
    /\ pc' = "detected"
    /\ UNCHANGED <<user_input, classes, probs, all_df, penalized, total,
                   adjusted, adjusted_sorted, top3, chart_rows,
                   alert_triggered, histRows, saved>>

Adjust ==
    /\ pc = "detected"
    /\ LET pen == PenalizeAll(all_df, detected_species)
           t == Divisor(pen)
       IN  /\ penalized' = pen
           /\ total' = t
           /\ adjusted' = Normalize(pen, t)
    /\ pc' = "adjusted"
    /\ UNCHANGED <<user_input, classes, probs, all_df, detected_species,
                   adjusted_sorted, top3, chart_rows, alert_triggered,
                   histRows, saved>>

RankAndBand ==
    /\ pc = "adjusted"
    /\ LET srt == sorted_desc(adjusted)
       IN  /\ adjusted_sorted' = srt
           /\ top3' = Top(srt)
           /\ chart_rows' = ChartRows(Top(srt))
           /\ alert_triggered' = AlertLoop(Top(srt), FALSE)
    /\ pc' = "presented"
    /\ UNCHANGED <<user_input, classes, probs, all_df, detected_species,
                   penalized, total, adjusted, histRows, saved>>

\* the append succeeds: one more row, caption shown, then st.success
SaveHistoryOk ==
    /\ pc = "presented"
    /\ histRows' = histRows + 1
    /\ saved' = TRUE
    /\ pc' = "delivered"
    /\ UNCHANGED <<user_input, classes, probs, all_df, detected_species,
                   penalized, total, adjusted, adjusted_sorted, top3,
                   chart_rows, alert_triggered>>

\* variant: the exception of the append is not caught and ends the run
SaveHistoryRaises ==
    /\ pc = "presented"
    /\ pc' = "failed"
    /\ UNCHANGED <<user_input, classes, probs, all_df, detected_species,
                   penalized, total, adjusted, adjusted_sorted, top3,
                   chart_rows, alert_triggered, histRows, saved>>

\* the append raises: except Exception: pass, then st.success
SaveHistoryFails ==
    /\ pc = "presented"
    /\ pc' = "delivered"
    /\ UNCHANGED <<user_input, classes, probs, all_df, detected_species,
                   penalized, total, adjusted, adjusted_sorted, top3,
                   chart_rows, alert_triggered, histRows, saved>>

\* the script is run again from the top; only the history file persists
Rerun ==
    /\ pc \in {"empty", "rejected", "delivered"}
    /\ pc' = "idle"
    /\ user_input' = <<>>
    /\ classes' = <<>>
    /\ probs' = <<>>
    /\ all_df' = <<>>
    /\ detected_species' = None
    /\ penalized' = <<>>
    /\ total' = RZero
    /\ adjusted' = <<>>
    /\ adjusted_sorted' = <<>>
    /\ top3' = <<>>
    /\ chart_rows' = <<>>
    /\ alert_triggered' = FALSE
    /\ saved' = FALSE
    /\ UNCHANGED histRows

Next ==
    \/ Diagnose(PipelineTexts, PipelineOutputs)
    \/ DetectSpecies
    \/ Adjust
    \/ RankAndBand
    \/ SaveHistoryOk
    \/ SaveHistoryFails
    \/ Rerun

Spec == Init /\ [][Next]_vars

(***************************************************************************)
(* The species detector on its own: many texts, one classifier output.     *)
(***************************************************************************)
DetectorOutputs == {[classes |-> CoreLabels, votes |-> <<1, 3, 6, 0, 0>>]}

NextDetector ==
    \/ Diagnose(DetectorTexts, DetectorOutputs)
    \/ DetectSpecies

SpecDetector == Init /\ [][NextDetector]_vars

(***************************************************************************)
(* The normalizer block (penalty, total, fallback, division) on its own,   *)
(* entered with any non-negative frame, the all-zero one included.  The    *)
(* gate of the full pipeline never lets a frame with total 0 through.      *)
(***************************************************************************)
NormLevels == {<<0, 1>>, <<1, 4>>, <<1, 2>>}

InitNormalizer ==
    /\ pc = "detected"
    /\ user_input = <<>>
    /\ classes = CoreLabels
    /\ probs \in [1..Len(CoreLabels) -> NormLevels]
    /\ all_df = sort_values(DataFrame(CoreLabels, probs), "kept")
    /\ detected_species \in {None, Dog, Cat, Cow}
    /\ penalized = <<>>
    /\ total = RZero
    /\ adjusted = <<>>
    /\ adjusted_sorted = <<>>
    /\ top3 = <<>>
    /\ chart_rows = <<>>
    /\ alert_triggered = FALSE
    /\ histRows = 0
    /\ saved = FALSE

NextNormalizer ==
    \/ Adjust
    \/ RankAndBand

SpecNormalizer == InitNormalizer /\ [][NextNormalizer]_vars

(***************************************************************************)
(* Vocabulary of the properties.                                           *)
(***************************************************************************)
IndexOf(s, x) == CHOOSE i \in 1..Len(s) : s[i] = x

\* raw probability of disease d, by its position in the catalog
RawOf(d) == probs[IndexOf(classes, d)]

\* position of d in the catalog (the classifier's label order)
CatalogIndex(d) == IndexOf(classes, d)

\* probability paired with d in a list of <<disease, probability>> pairs
ProbIn(pairs, d) == pairs[CHOOSE i \in 1..Len(pairs) : pairs[i][1] = d][2]

\* the species a disease is tagged with, as a set (empty: no tag)
TagSet(d) ==
    CASE d \in {"Parvovirus", "Distemper"} -> {Dog}
      [] d \in {"Skin_Allergy", "Kidney_Disease"} -> {Dog, Cat}
      [] d = "Arthritis" -> {Dog, Cow}
      [] d \in {"Feline_Panleukopenia", "Rhinotracheitis", "Feline_UTI",
                "Feline_Allergy", "Feline_Arthritis"} -> {Cat}
      [] d \in {"Mastitis", "Foot_and_Mouth", "Bovine_Diarrhea",
                "Bovine_Tuberculosis", "Ketosis"} -> {Cow}
      [] OTHER -> {}

\* d is tagged and the detected species is not among its tags
Mismatched(d) ==
    detected_species # None /\ TagSet(d) # {} /\ detected_species \notin TagSet(d)

HasAdjusted == pc \in {"adjusted", "presented", "delivered"}
HasRanking == pc \in {"presented", "delivered"}
PastGate == pc \in {"valid", "detected", "adjusted", "presented", "delivered"}
Classes == SeqRange(classes)

(***************************************************************************)
(* C1.  Validity gate: a non-blank request whose largest raw probability   *)
(* is strictly below 0.10 ends rejected, with no species detection, no     *)
(* adjustment, no ranked result and no history row; a request whose        *)
(* largest raw probability is at least 0.10 (0.10 itself included) is not  *)
(* rejected and goes on to species detection and then to adjustment.  The  *)
(* decision reads the raw probabilities only.                              *)
(***************************************************************************)
C1_ValidityGate ==
    /\ pc = "rejected" =>
          /\ \A i \in 1..Len(probs) : 10 * probs[i][1] < probs[i][2]
          /\ detected_species = None
          /\ penalized = <<>>
          /\ adjusted = <<>>
          /\ adjusted_sorted = <<>>
          /\ top3 = <<>>
          /\ chart_rows = <<>>
          /\ ~alert_triggered
          /\ ~saved
    /\ PastGate => \E i \in 1..Len(probs) : 10 * probs[i][1] >= probs[i][2]
    /\ (user_input # <<>> /\ probs # <<>>) => (pc = "rejected" \/ PastGate)
    /\ HasAdjusted => Len(adjusted) = Len(probs)

\* a rejected request whose text names a species
C1_Witness ==
    /\ pc = "rejected"
    /\ DetectSpeciesOf(user_input) = Dog
    /\ Len(probs) = Len(AllLabels)

(***************************************************************************)
(* C2.  For a raw distribution that sums to 1 and passed the gate, and for *)
(* any detected species, the adjusted probabilities sum to 1 and each lies *)
(* in [0, 1].                                                              *)
(***************************************************************************)
C2_AdjustedIsDistribution ==
    (HasAdjusted /\ RSum(probs) = ROne) =>
        /\ RSum(Weights(adjusted)) = ROne
        /\ \A i \in 1..Len(adjusted) :
              /\ adjusted[i][2][2] > 0
              /\ 0 <= adjusted[i][2][1]
              /\ adjusted[i][2][1] <= adjusted[i][2][2]

\* an adjustment in which some entries were penalized and some were not
C2_Witness ==
    /\ pc = "adjusted"
    /\ detected_species = Cow
    /\ \E d \in Classes : Mismatched(d) /\ RLt(RZero, RawOf(d))
    /\ \E d \in Classes : ~Mismatched(d) /\ RLt(RZero, RawOf(d))

(***************************************************************************)
(* C3 as stated.  When species S is detected and a disease's tags exclude  *)
(* S, its adjusted probability is at most its raw probability, and         *)
(* strictly below it whenever the raw probability is positive.             *)
(***************************************************************************)
C3_StrictForEveryDistribution ==
    HasAdjusted =>
        \A d \in Classes :
            Mismatched(d) =>
                /\ RLe(ProbIn(adjusted, d), RawOf(d))
                /\ RLt(RZero, RawOf(d)) => RLt(ProbIn(adjusted, d), RawOf(d))

\* some disease that is not penalized has positive raw probability
SomeUnpenalizedMass == \E e \in Classes : ~Mismatched(e) /\ RLt(RZero, RawOf(e))

(***************************************************************************)
(* C3 as amended.  When species S is detected and a disease's tags exclude *)
(* S, its adjusted probability is at most its raw probability; it is       *)
(* strictly below it when the raw probability is positive and some         *)
(* disease that is not penalized has positive raw probability; when every  *)
(* disease with positive raw probability is penalized, renormalisation     *)
(* gives every disease its raw probability back.                           *)
(***************************************************************************)
C3_PenaltyMonotone ==
    HasAdjusted =>
        \A d \in Classes :
            Mismatched(d) =>
                /\ RLe(ProbIn(adjusted, d), RawOf(d))
                /\ (RLt(RZero, RawOf(d)) /\ SomeUnpenalizedMass)
                      => RLt(ProbIn(adjusted, d), RawOf(d))
                /\ ~SomeUnpenalizedMass => ProbIn(adjusted, d) = RawOf(d)

\* a penalized disease with positive raw probability next to unpenalized mass
C3_Witness ==
    /\ pc = "adjusted"
    /\ SomeUnpenalizedMass
    /\ \E d \in Classes :
          Mismatched(d) /\ RLt(RZero, RawOf(d)) /\ RLt(ProbIn(adjusted, d), RawOf(d))

\* the ranking holds every disease once, in descending adjusted probability,
\* and top3 is its first min(3, n) entries
RankingIsSorted ==
    /\ Len(adjusted_sorted) = Len(classes)
    /\ SeqRange(adjusted_sorted) = SeqRange(adjusted)
    /\ \A d \in Classes : \E i \in 1..Len(adjusted_sorted) : adjusted_sorted[i][1] = d
    /\ \A i, j \in 1..Len(adjusted_sorted) :
          i < j => RLe(adjusted_sorted[j][2], adjusted_sorted[i][2])
    /\ Len(top3) = Min(3, Len(classes))
    /\ \A i \in 1..Len(top3) : top3[i] = adjusted_sorted[i]

C5_PenaltyPolicy ==
    /\ HasAdjusted =>
          \A d \in Classes :
              ProbIn(penalized, d) =
                  IF Mismatched(d)
                  THEN Rat(RawOf(d)[1], 20 * RawOf(d)[2])
                  ELSE RawOf(d)
    /\ ( /\ HasRanking
         /\ detected_species = Cow
         /\ classes = CoreLabels
         /\ probs = << <<1, 10>>, <<3, 10>>, <<3, 5>>, <<0, 1>>, <<0, 1>> >> )
       => /\ top3[1][1] = "Mastitis"
          /\ top3[2][1] = "Arthritis"
          /\ top3[3][1] = "Parvovirus"
          /\ ProbIn(penalized, "Parvovirus") = <<3, 100>>
          /\ ProbIn(penalized, "Arthritis") = <<1, 10>>

\* the scenario: cow detected, Parvovirus 0.6, Mastitis 0.3, Arthritis 0.1
C5_Witness ==
    /\ pc = "presented"
    /\ detected_species = Cow
    /\ classes = CoreLabels
    /\ probs = << <<1, 10>>, <<3, 10>>, <<3, 5>>, <<0, 1>>, <<0, 1>> >>
    /\ top3[1][1] = "Mastitis"

(***************************************************************************)
(* C6.  After ranking, alert_triggered is true iff some entry of the       *)
(* top-3 list has confidence >= 50%, that is iff some entry is in the high *)
(* band; an entry is high for confidence >= 50, medium for 20 <=           *)
(* confidence < 50 and low below 20.                                       *)
(***************************************************************************)
C6_AlertIffHighBand ==
    HasRanking =>
        /\ Len(chart_rows) = Len(top3)
        /\ alert_triggered <=>
              \E i \in 1..Len(top3) : 100 * top3[i][2][1] >= 50 * top3[i][2][2]
        /\ alert_triggered <=> \E i \in 1..Len(chart_rows) : chart_rows[i].Color = Red
        /\ \A i \in 1..Len(chart_rows) :
              LET n == 100 * top3[i][2][1]
                  d == top3[i][2][2]
              IN  /\ chart_rows[i].Confidence = Rat(n, d)
                  /\ chart_rows[i].Color = Red <=> n >= 50 * d
                  /\ chart_rows[i].Color = Orange <=> (n >= 20 * d /\ n < 50 * d)
                  /\ chart_rows[i].Color = Green <=> n < 20 * d

\* an alert raised by an entry at exactly 50%, beside a medium and a low entry
C6_Witness ==
    /\ pc = "presented"
    /\ alert_triggered
    /\ \E i \in 1..Len(top3) : top3[i][2] = <<1, 2>>
    /\ \E i \in 1..Len(chart_rows) : chart_rows[i].Color = Orange
    /\ \E i \in 1..Len(chart_rows) : chart_rows[i].Color = Green

C8_NoSpeciesPassThrough ==
    HasAdjusted =>
        /\ (detected_species = None /\ RSum(probs) = ROne) =>
              \A d \in Classes : ProbIn(adjusted, d) = RawOf(d)
        /\ \A d \in Classes : TagSet(d) = {} => ProbIn(penalized, d) = RawOf(d)

\* no species in the text, mass on a tagged and on an untagged disease
C8_Witness ==
    /\ pc = "adjusted"
    /\ detected_species = None
    /\ \E d \in Classes : TagSet(d) # {} /\ RLt(RZero, RawOf(d))
    /\ \E d \in Classes : TagSet(d) = {} /\ RLt(RZero, RawOf(d))

\* some keyword of the i-th species occurs in the lower-cased text
KeywordHit(i) ==
    \E k \in SeqRange(species_keywords[i][2]) : Contains(Lower(user_input), k)

(***************************************************************************)
(* C9.  The detected species is the first of dog, cat, cow one of whose    *)
(* keywords occurs as a substring of the lower-cased text, and none iff no *)
(* keyword of any species occurs; a text with a dog keyword and a cow      *)
(* keyword yields dog, and a text whose only species word is "cattle"      *)
(* yields cat.                                                             *)
(***************************************************************************)
C9_FirstSpeciesWins ==
    pc = "detected" =>
        /\ species_keywords[1][1] = Dog
        /\ species_keywords[2][1] = Cat
        /\ species_keywords[3][1] = Cow
        /\ detected_species =
              IF KeywordHit(1) THEN Dog
              ELSE IF KeywordHit(2) THEN Cat
              ELSE IF KeywordHit(3) THEN Cow
              ELSE None
        /\ detected_species = None <=> \A i \in 1..3 : ~KeywordHit(i)
        /\ (KeywordHit(1) /\ KeywordHit(3)) => detected_species = Dog
        /\ user_input = <<"c", "a", "t", "t", "l", "e">> => detected_species = Cat

\* a cow keyword typed before a dog keyword: dog is detected
C9_Witness ==
    /\ pc = "detected"
    /\ user_input = <<"C", "O", "W", " ", "D", "o", "g">>
    /\ detected_species = Dog

(***************************************************************************)
(* C10.  The history append is attempted only once the ranked result and   *)
(* the alert flag have been computed and presented; whether it succeeds or *)
(* fails, the request reaches the delivered state with the ranked result   *)
(* and alert_triggered as they were presented.                             *)
(***************************************************************************)
C10_LoggingFailureSuppressed ==
    [][ /\ pc = "presented" =>
              /\ pc' = "delivered"
              /\ top3' = top3
              /\ chart_rows' = chart_rows
              /\ alert_triggered' = alert_triggered
        /\ (histRows' # histRows \/ saved' # saved) =>
              (pc = "presented" /\ top3 # <<>>) \/ pc' = "idle"
        /\ pc' = "delivered" => (pc = "presented" /\ top3' = Top(adjusted_sorted'))
      ]_vars

\* delivered although the append failed, alert raised
C10_Witness ==
    /\ pc = "delivered"
    /\ ~saved
    /\ histRows = 0
    /\ Len(top3) = 3
    /\ alert_triggered

=============================================================================
